---- MODULE Spec2Model ----
(***************************************************************************)
(* Model of package opt (metafates/opt): the three-state option container, *)
(* its constructors, queries, unwrappers, combinators, index helpers and   *)
(* its JSON / text / binary / gob / sql adapters.                          *)
(*                                                                         *)
(* The program is generic in the contained type T.  The model instantiates *)
(* T with three Go types that exercise every branch of the adapters:       *)
(*   "int64"  a plain scalar,                                              *)
(*   "ptr"    *int64, a nilable reference,                                 *)
(*   "opt"    Opt[int64], a nested option (which itself implements the     *)
(*            Marshaler / Unmarshaler / Scanner interfaces).               *)
(* The sql write path is also instantiated with                            *)
(*   "struct" a plain struct type, which no driver conversion accepts,     *)
(* and the encoding adapters with                                          *)
(*   "chan"   chan int64, a type neither encoding/json nor gob supports.   *)
(* User callbacks are modelled extensionally: an invocation is recorded    *)
(* with its argument, and its return value is an arbitrary value.          *)
(***************************************************************************)
EXTENDS Integers, Sequences, FiniteSets, TLC

(* ----------------------------- bounds ---------------------------------- *)
MaxInt == 1
MaxLen == 1
MaxKey == 0
MaxRefs == 2

Types == {"int64", "ptr", "opt"}
SqlTypes == Types \cup {"struct"}
CodecTypes == Types \cup {"chan"}
Ints == 0..MaxInt
(* the program's two option variables *)
Slots == {"x", "y"}
Keys == 0..MaxKey

(* ----------------------------- values ---------------------------------- *)
(* placeholder for "no argument / no result" and for a call without arguments *)
Nothing == [kind |-> "nothing"]

IntV(n) == [kind |-> "int", n |-> n]
NilPtr == [kind |-> "nil"]
PtrTo(n) == [kind |-> "ptr", n |-> n]
StructV(n) == [kind |-> "structv", n |-> n]
NilChan == [kind |-> "nilchan"]
ChanV(n) == [kind |-> "chan", n |-> n]

(* type Opt[T any] struct { value T; hasValue bool; explicit bool } *)
Opt(v, h, e) == [value |-> v, hasValue |-> h, explicit |-> e]

Zero(t) ==
  IF t = "int64" THEN IntV(0)
  ELSE IF t = "ptr" THEN NilPtr
  ELSE IF t = "struct" THEN StructV(0)
  ELSE IF t = "chan" THEN NilChan
  ELSE Opt(IntV(0), FALSE, FALSE)

(* var o Opt[T]: the zero-initialized option *)
Unset(t) == Opt(Zero(t), FALSE, FALSE)

SomeImplicit(value) == Opt(value, TRUE, FALSE)

Some(value) == Opt(value, TRUE, TRUE)

None(t) == Opt(Zero(t), FALSE, TRUE)

(* the values of the contained type; a nested option is one the program can build *)
Values(t) ==
  IF t = "int64" THEN {IntV(n) : n \in Ints}
  ELSE IF t = "ptr" THEN {NilPtr} \cup {PtrTo(n) : n \in Ints}
  ELSE IF t = "struct" THEN {StructV(n) : n \in Ints}
  ELSE IF t = "chan" THEN {NilChan} \cup {ChanV(n) : n \in Ints}
  ELSE {Unset("int64"), None("int64")} \cup {Some(IntV(n)) : n \in Ints}

FromPtr(t, ptr) ==
  IF ptr.isNil THEN None(t) ELSE Some(ptr.elem)

FromZeroNoCheck(t, value) == Some(value)

FromZero(t, value) ==
  IF value = Zero(t) THEN None(t) ELSE Some(value)

FromTuple(t, value, ok) ==
  IF ok THEN Some(value) ELSE None(t)

(* ----------------------------- queries --------------------------------- *)
IsExplicit(o) == o.explicit

IsSome(o) == o.hasValue

IsNone(o) == ~o.hasValue

(* and/orElse callbacks: fret is what the callback returns when invoked *)
IsSomeAnd(o, fret) ==
  IF o.hasValue THEN [res |-> fret, calls |-> <<o.value>>]
  ELSE [res |-> FALSE, calls |-> <<>>]

IsNoneOr(o, fret) ==
  IF ~o.hasValue THEN [res |-> TRUE, calls |-> <<>>]
  ELSE [res |-> fret, calls |-> <<o.value>>]

(* ---------------------------- unwrappers ------------------------------- *)
GetOrEmpty(t, o) == IF o.hasValue THEN o.value ELSE Zero(t)

TryGet(t, o) ==
  IF o.hasValue THEN [value |-> o.value, ok |-> TRUE]
  ELSE [value |-> Zero(t), ok |-> FALSE]

MustGet(t, o) ==
  IF o.hasValue THEN [panic |-> FALSE, value |-> o.value]
  ELSE [panic |-> TRUE, value |-> Zero(t)]

GetOr(o, or) == IF o.hasValue THEN o.value ELSE or

GetOrElse(o, fret) ==
  IF o.hasValue THEN [res |-> o.value, calls |-> <<>>]
  ELSE [res |-> fret, calls |-> <<Nothing>>]

(* ---------------------------- combinators ------------------------------ *)
Inspect(o) ==
  IF o.hasValue THEN [res |-> o, calls |-> <<o.value>>]
  ELSE [res |-> o, calls |-> <<>>]

Opt_MapNoneExplicit(t, o, fret) ==
  IF o.hasValue THEN [res |-> Some(fret), calls |-> <<o.value>>]
  ELSE [res |-> None(t), calls |-> <<>>]

Opt_Map(t, o, fret) ==
  IF o.hasValue THEN [res |-> Some(fret), calls |-> <<o.value>>]
  ELSE [res |-> o, calls |-> <<>>]

AndSwapped(o, and) == IF o.hasValue THEN o ELSE and

And(o, and) == IF o.hasValue THEN and ELSE o

Opt_AndThenEager(o, fret) ==
  IF o.hasValue THEN [res |-> fret, calls |-> <<o.value>>]
  ELSE [res |-> o, calls |-> <<o.value>>]

Opt_AndThen(o, fret) ==
  IF o.hasValue THEN [res |-> fret, calls |-> <<o.value>>]
  ELSE [res |-> o, calls |-> <<>>]

Or(o, or) == IF o.hasValue THEN o ELSE or

OrElse(o, fret) ==
  IF o.hasValue THEN [res |-> o, calls |-> <<>>]
  ELSE [res |-> fret, calls |-> <<Nothing>>]

FilterKeep(t, o, pret) ==
  IF ~o.hasValue THEN [res |-> o, calls |-> <<>>]
  ELSE [res |-> o, calls |-> <<o.value>>]

FilterStale(t, o, pret) ==
  IF ~o.hasValue THEN [res |-> o, calls |-> <<>>]
  ELSE IF ~pret THEN [res |-> Opt(o.value, FALSE, TRUE), calls |-> <<o.value>>]
  ELSE [res |-> o, calls |-> <<o.value>>]

Filter(t, o, pret) ==
  IF ~o.hasValue THEN [res |-> o, calls |-> <<>>]
  ELSE IF ~pret THEN [res |-> None(t), calls |-> <<o.value>>]
  ELSE [res |-> o, calls |-> <<o.value>>]

ToSlice(o) == IF o.hasValue THEN <<o.value>> ELSE <<>>

(* references: the null reference, a heap cell, or the storage of a variable *)
NilRef == [kind |-> "nilref"]
CellRef(i) == [kind |-> "cell", i |-> i]
SlotRef(s) == [kind |-> "slot", s |-> s]

ToPtrAlias(s, o, h) ==
  IF o.hasValue THEN [ref |-> SlotRef(s), heap |-> h]
  ELSE [ref |-> NilRef, heap |-> h]

(* o is the copy of the variable s the method was called on; value := o.value *)
(* is a fresh cell of the heap h and &value its address                       *)
ToPtr(s, o, h) ==
  IF o.hasValue THEN [ref |-> CellRef(Len(h) + 1), heap |-> Append(h, o.value)]
  ELSE [ref |-> NilRef, heap |-> h]

(* earlier variant: &o.value, the address of the field of the receiver copy *)
LegacyToPtr(s, o, h) ==
  IF o.hasValue THEN [ref |-> CellRef(Len(h) + 1), heap |-> Append(h, o.value)]
  ELSE [ref |-> NilRef, heap |-> h]

(* *ref = w *)
Store(ref, w, os, h) ==
  IF ref.kind = "cell" THEN [opts |-> os, heap |-> [h EXCEPT ![ref.i] = w]]
  ELSE [opts |-> [os EXCEPT ![ref.s].value = w], heap |-> h]

(* closure returned by IndexSlice(slice), applied to index *)
IndexSlice(t, slice, index) ==
  IF index >= Len(slice) \/ index < 0
  THEN [panic |-> FALSE, res |-> None(t)]
  ELSE [panic |-> FALSE, res |-> Some(slice[index + 1])]

(* closure returned by IndexMap(m), applied to key; m is a function on its keys *)
IndexMap(t, m, key) ==
  IF key \in DOMAIN m THEN Some(m[key]) ELSE None(t)

(* free function Map[T, U] *)
Map(u, option, fret) ==
  IF option.hasValue THEN [res |-> Some(fret), calls |-> <<option.value>>]
  ELSE [res |-> None(u), calls |-> <<>>]

(* free function AndThen[T, U] *)
AndThen(u, option, fret) ==
  IF option.hasValue THEN [res |-> fret, calls |-> <<option.value>>]
  ELSE [res |-> None(u), calls |-> <<>>]

(* ------------------------- document (JSON) adapter --------------------- *)
(* document tokens: the literal null, a number, a string, malformed input *)
JNull == [tok |-> "null"]
JNum(n) == [tok |-> "num", n |-> n]
JStr == [tok |-> "str"]
JBad == [tok |-> "bad"]

JEmpty == [tok |-> "empty"]

(* the nil error *)
NoErr == [kind |-> "noerr"]

(* errors as values: *json.SyntaxError, *json.UnmarshalTypeError,           *)
(* *json.UnsupportedTypeError, and *json.MarshalerError wrapping e          *)
ErrSyntax == [kind |-> "syntax"]
ErrType == [kind |-> "unmarshal type"]
ErrUnsupported == [kind |-> "unsupported type"]
MarshalerError(e) == [kind |-> "marshaler", cause |-> e]

(* json.Marshal(o.value) for a value of type t: the bytes when it succeeds *)
JsonMarshalValue(t, v) ==
  IF t = "int64" THEN JNum(v.n)
  ELSE IF t = "ptr" THEN (IF v = NilPtr THEN JNull ELSE JNum(v.n))
  ELSE IF t = "chan" THEN JEmpty
  ELSE (IF v.hasValue THEN JNum(v.value.n) ELSE JNull)

MarshalJSON(t, o) ==
  IF o.hasValue
  THEN IF t = "chan" THEN [err |-> TRUE, bytes |-> JEmpty, cause |-> ErrUnsupported]
       ELSE [err |-> FALSE, bytes |-> JsonMarshalValue(t, o.value), cause |-> NoErr]
  ELSE [err |-> FALSE, bytes |-> JNull, cause |-> NoErr]

RECURSIVE UnmarshalJSON(_, _, _)

(* var value *T; json.Unmarshal(b, &value) *)
JsonUnmarshalPtr(t, b) ==
  IF b.tok = "bad" THEN [err |-> TRUE, isNil |-> TRUE, elem |-> Zero(t), cause |-> ErrSyntax]
  ELSE IF b.tok = "null" THEN [err |-> FALSE, isNil |-> TRUE, elem |-> Zero(t), cause |-> NoErr]
  ELSE IF t = "opt" THEN
    LET inner == UnmarshalJSON("int64", Unset("int64"), b)
    IN [err |-> inner.err, isNil |-> FALSE, elem |-> inner.o, cause |-> inner.cause]
  ELSE IF t = "chan" THEN [err |-> TRUE, isNil |-> FALSE, elem |-> Zero(t), cause |-> ErrType]
  ELSE IF b.tok = "num" THEN
    [err |-> FALSE, isNil |-> FALSE, elem |-> IF t = "ptr" THEN PtrTo(b.n) ELSE IntV(b.n),
     cause |-> NoErr]
  ELSE [err |-> TRUE, isNil |-> FALSE, elem |-> Zero(t), cause |-> ErrType]

UnmarshalJSONKeepFlag(t, o, b) ==
  LET r == JsonUnmarshalPtr(t, b)
  IN IF r.err THEN [err |-> TRUE, o |-> o, cause |-> r.cause]
     ELSE IF r.isNil THEN [err |-> FALSE, o |-> Opt(Zero(t), FALSE, o.explicit), cause |-> NoErr]
     ELSE [err |-> FALSE, o |-> Some(r.elem), cause |-> NoErr]

UnmarshalJSON(t, o, b) ==
  LET r == JsonUnmarshalPtr(t, b)
  IN IF r.err THEN [err |-> TRUE, o |-> o, cause |-> r.cause]
     ELSE IF r.isNil THEN [err |-> FALSE, o |-> None(t), cause |-> NoErr]
     ELSE [err |-> FALSE, o |-> Some(r.elem), cause |-> NoErr]

(* ------------------------------ text adapter --------------------------- *)
(* json.Marshal(o): calls o.MarshalJSON; its error comes back wrapped in a  *)
(* *json.MarshalerError, its output is checked and compacted                *)
MarshalText(t, o) ==
  LET r == MarshalJSON(t, o)
  IN IF r.err THEN [err |-> TRUE, bytes |-> JEmpty, cause |-> MarshalerError(r.cause)]
     ELSE IF r.bytes.tok = "bad"
     THEN [err |-> TRUE, bytes |-> JEmpty, cause |-> MarshalerError(ErrSyntax)]
     ELSE [err |-> FALSE, bytes |-> r.bytes, cause |-> NoErr]

UnmarshalTextSkipNull(t, o, data) ==
  IF data.tok = "bad" THEN [err |-> TRUE, o |-> o, cause |-> ErrSyntax]
  ELSE IF data.tok = "null" THEN [err |-> FALSE, o |-> o, cause |-> NoErr]
  ELSE UnmarshalJSON(t, o, data)

(* json.Unmarshal(data, o): syntax check of data, then o.UnmarshalJSON(data) *)
UnmarshalText(t, o, data) ==
  IF data.tok = "bad" THEN [err |-> TRUE, o |-> o, cause |-> ErrSyntax]
  ELSE UnmarshalJSON(t, o, data)

(* json.Unmarshal(doc, &foo) for a struct foo with one field of type Opt[T]; *)
(* doc is an object in which the field's key is present or not              *)
DecodeStruct(t, field, doc) ==
  IF doc.tok.tok = "bad" THEN [err |-> TRUE, o |-> field, calls |-> <<>>]
  ELSE IF ~doc.hasKey THEN [err |-> FALSE, o |-> field, calls |-> <<>>]
  ELSE LET r == UnmarshalJSON(t, field, doc.tok)
       IN [err |-> r.err, o |-> r.o, calls |-> <<doc.tok>>]

(* ----------------------------- binary adapter -------------------------- *)
RECURSIVE MarshalBinary(_, _)

(* gob.NewEncoder(&buf).Encode(o.value): length, type id, delta, payload *)
GobEncodeValue(t, v) ==
  IF t = "int64" THEN [err |-> FALSE, bytes |-> <<3, 4, 0, 2 * v.n>>]
  ELSE IF t = "chan" THEN [err |-> TRUE, bytes |-> <<>>]
  ELSE IF t = "ptr" THEN
    (IF v = NilPtr THEN [err |-> TRUE, bytes |-> <<>>]
     ELSE [err |-> FALSE, bytes |-> <<3, 4, 0, 2 * v.n>>])
  ELSE LET b == MarshalBinary("int64", v)
       IN [err |-> b.err, bytes |-> <<127, Len(b.bytes)>> \o b.bytes]

MarshalBinaryNoTag(t, o) ==
  IF ~o.hasValue THEN [err |-> FALSE, bytes |-> <<0>>]
  ELSE LET enc == GobEncodeValue(t, o.value)
       IN IF enc.err THEN [err |-> TRUE, bytes |-> <<>>]
          ELSE [err |-> FALSE, bytes |-> enc.bytes]

MarshalBinary(t, o) ==
  IF ~o.hasValue THEN [err |-> FALSE, bytes |-> <<0>>]
  ELSE LET enc == GobEncodeValue(t, o.value)
       IN IF enc.err THEN [err |-> TRUE, bytes |-> <<>>]
          ELSE [err |-> FALSE, bytes |-> <<1>> \o enc.bytes]

RECURSIVE UnmarshalBinary(_, _, _)

(* var value T; gob.NewDecoder(buf).Decode(&value) *)
GobDecodeValue(t, b) ==
  IF t = "opt" THEN
    IF Len(b) >= 2 /\ b[1] = 127 /\ b[2] = Len(b) - 2
    THEN LET inner == UnmarshalBinary("int64", Unset("int64"), SubSeq(b, 3, Len(b)))
         IN [err |-> inner.err, value |-> inner.o]
    ELSE [err |-> TRUE, value |-> Zero(t)]
  ELSE IF t = "chan" THEN [err |-> TRUE, value |-> Zero(t)]
  ELSE IF Len(b) = 4 /\ b[1] = 3 /\ b[2] = 4 /\ b[3] = 0 /\ b[4] % 2 = 0
    THEN [err |-> FALSE, value |-> IF t = "ptr" THEN PtrTo(b[4] \div 2) ELSE IntV(b[4] \div 2)]
  ELSE [err |-> TRUE, value |-> Zero(t)]

UnmarshalBinarySwapped(t, o, data) ==
  IF Len(data) = 0 THEN [err |-> TRUE, o |-> o]
  ELSE IF data[1] # 0 THEN [err |-> FALSE, o |-> None(t)]
  ELSE LET dec == GobDecodeValue(t, SubSeq(data, 2, Len(data)))
       IN IF dec.err THEN [err |-> TRUE, o |-> o]
          ELSE [err |-> FALSE, o |-> Some(dec.value)]

UnmarshalBinaryClobber(t, o, data) ==
  IF Len(data) = 0 THEN [err |-> TRUE, o |-> o]
  ELSE IF data[1] = 0 THEN [err |-> FALSE, o |-> None(t)]
  ELSE LET dec == GobDecodeValue(t, SubSeq(data, 2, Len(data)))
       IN IF dec.err THEN [err |-> TRUE, o |-> None(t)]
          ELSE [err |-> FALSE, o |-> Some(dec.value)]

UnmarshalBinary(t, o, data) ==
  IF Len(data) = 0 THEN [err |-> TRUE, o |-> o]
  ELSE IF data[1] = 0 THEN [err |-> FALSE, o |-> None(t)]
  ELSE LET dec == GobDecodeValue(t, SubSeq(data, 2, Len(data)))
       IN IF dec.err THEN [err |-> TRUE, o |-> o]
          ELSE [err |-> FALSE, o |-> Some(dec.value)]

GobEncode(t, o) == MarshalBinary(t, o)

GobDecode(t, o, data) == UnmarshalBinary(t, o, data)

(* ------------------------------ sql adapter ---------------------------- *)
(* driver values handed to Scan: NULL, an int64, a decimal string, a        *)
(* non-numeric string, and a value of a kind the driver does not know       *)
SrcNil == [kind |-> "nil"]
SrcInt(n) == [kind |-> "int64", n |-> n]
SrcStr(n) == [kind |-> "string", n |-> n]
SrcText == [kind |-> "text"]
SrcStruct == [kind |-> "struct"]

(* any(&value).(sql.Scanner): *Opt[int64] has a Scan method, *int64 and **int64 have none *)
HasScanner(t) == t = "opt"

(* driver.DefaultParameterConverter.ConvertValue(src) *)
ConvertValue(src) ==
  IF src.kind \in {"int64", "string", "text"} THEN [err |-> FALSE, v |-> src]
  ELSE [err |-> TRUE, v |-> Nothing]

(* converted.(T) *)
AssertT(t, converted) ==
  IF t = "int64" /\ converted.kind = "int64" THEN [ok |-> TRUE, v |-> IntV(converted.n)]
  ELSE [ok |-> FALSE, v |-> Zero(t)]

(* errors as values: the error of sql.Null[T].Scan, the error of            *)
(* ConvertValue, and fmt.Errorf("failed to scan: %w", err)                   *)
ErrNullScan == [kind |-> "nullscan"]
ErrConvert == [kind |-> "convert"]
Wrap(e) == [kind |-> "failed to scan", cause |-> e]

RECURSIVE Scan(_, _, _)

(* var nullable sql.Null[T]; nullable.Scan(src) *)
NullScan(t, src) ==
  IF src.kind = "nil" THEN [err |-> FALSE, valid |-> FALSE, v |-> Zero(t), cause |-> NoErr]
  ELSE IF t = "opt" THEN
    LET inner == Scan("int64", Unset("int64"), src)
    IN [err |-> inner.err, valid |-> ~inner.err, v |-> inner.o, cause |-> inner.cause]
  ELSE IF src.kind \in {"int64", "string"} THEN
    [err |-> FALSE, valid |-> TRUE, v |-> IF t = "ptr" THEN PtrTo(src.n) ELSE IntV(src.n),
     cause |-> NoErr]
  ELSE [err |-> TRUE, valid |-> FALSE, v |-> Zero(t), cause |-> ErrNullScan]

scanConvertValueSwallow(t, o, src) ==
  LET nullable == NullScan(t, src)
  IN IF nullable.valid
     THEN [err |-> FALSE, o |-> Some(nullable.v), tiers |-> <<3>>, cause |-> NoErr]
     ELSE [err |-> FALSE, o |-> None(t), tiers |-> <<3>>, cause |-> NoErr]

scanConvertValue(t, o, src) ==
  LET nullable == NullScan(t, src)
  IN IF nullable.err
     THEN [err |-> TRUE, o |-> o, tiers |-> <<3>>, cause |-> nullable.cause]
     ELSE IF nullable.valid
     THEN [err |-> FALSE, o |-> Some(nullable.v), tiers |-> <<3>>, cause |-> NoErr]
     ELSE [err |-> FALSE, o |-> None(t), tiers |-> <<3>>, cause |-> NoErr]

ScanConvertFirst(t, o, src) ==
  IF src = SrcNil THEN [err |-> FALSE, o |-> None(t), tiers |-> <<>>, cause |-> NoErr]
  ELSE LET conv == ConvertValue(src)
           as == IF conv.err THEN [ok |-> FALSE, v |-> Zero(t)] ELSE AssertT(t, conv.v)
       IN IF ~conv.err /\ as.ok
          THEN [err |-> FALSE, o |-> Some(as.v), tiers |-> <<2>>, cause |-> NoErr]
          ELSE IF HasScanner(t) THEN
            LET inner == Scan("int64", Unset("int64"), src)
            IN IF inner.err
               THEN [err |-> TRUE, o |-> o, tiers |-> <<2, 1>>, cause |-> Wrap(inner.cause)]
               ELSE [err |-> FALSE, o |-> Some(inner.o), tiers |-> <<2, 1>>, cause |-> NoErr]
          ELSE LET r == scanConvertValue(t, o, src)
               IN [err |-> r.err, o |-> r.o, tiers |-> <<2>> \o r.tiers, cause |-> r.cause]

ScanNilKeeps(t, o, src) ==
  IF src = SrcNil THEN [err |-> FALSE, o |-> o, tiers |-> <<>>, cause |-> NoErr]
  ELSE IF HasScanner(t) THEN
    LET inner == Scan("int64", Unset("int64"), src)
    IN IF inner.err
       THEN [err |-> TRUE, o |-> o, tiers |-> <<1>>, cause |-> Wrap(inner.cause)]
       ELSE [err |-> FALSE, o |-> Some(inner.o), tiers |-> <<1>>, cause |-> NoErr]
  ELSE LET conv == ConvertValue(src)
           as == IF conv.err THEN [ok |-> FALSE, v |-> Zero(t)] ELSE AssertT(t, conv.v)
       IN IF ~conv.err /\ as.ok
          THEN [err |-> FALSE, o |-> Some(as.v), tiers |-> <<2>>, cause |-> NoErr]
          ELSE LET r == scanConvertValue(t, o, src)
               IN [err |-> r.err, o |-> r.o, tiers |-> <<2>> \o r.tiers, cause |-> r.cause]

(* tiers: the conversion tiers attempted, in order; cause: the error returned *)
Scan(t, o, src) ==
  IF src = SrcNil THEN [err |-> FALSE, o |-> None(t), tiers |-> <<>>, cause |-> NoErr]
  ELSE IF HasScanner(t) THEN
    LET inner == Scan("int64", Unset("int64"), src)
    IN IF inner.err
       THEN [err |-> TRUE, o |-> o, tiers |-> <<1>>, cause |-> Wrap(inner.cause)]
       ELSE [err |-> FALSE, o |-> Some(inner.o), tiers |-> <<1>>, cause |-> NoErr]
  ELSE LET conv == ConvertValue(src)
           as == IF conv.err THEN [ok |-> FALSE, v |-> Zero(t)] ELSE AssertT(t, conv.v)
       IN IF ~conv.err /\ as.ok
          THEN [err |-> FALSE, o |-> Some(as.v), tiers |-> <<2>>, cause |-> NoErr]
          ELSE LET r == scanConvertValue(t, o, src)
               IN [err |-> r.err, o |-> r.o, tiers |-> <<2>> \o r.tiers, cause |-> r.cause]

RECURSIVE Value(_, _)

(* driver.DefaultParameterConverter.ConvertValue(o.value) for a value of    *)
(* type t: an int64 is a driver value; a nil pointer converts to nil and a   *)
(* non-nil one to its element; an Opt[int64] is a Valuer and converts to     *)
(* what its Value method returns; a struct is an unsupported type            *)
ConvertParam(t, v) ==
  IF t = "int64" THEN [err |-> FALSE, v |-> SrcInt(v.n)]
  ELSE IF t = "ptr" THEN
    [err |-> FALSE, v |-> IF v = NilPtr THEN SrcNil ELSE SrcInt(v.n)]
  ELSE IF t = "opt" THEN Value("int64", v)
  ELSE [err |-> TRUE, v |-> SrcNil]

Value(t, o) ==
  IF ~o.hasValue THEN [err |-> FALSE, v |-> SrcNil]
  ELSE LET conv == ConvertParam(t, o.value)
       IN IF ~conv.err THEN [err |-> FALSE, v |-> conv.v]
          ELSE [err |-> FALSE, v |-> o.value]

(* the other variant of Value in the repository: the conversion's outcome *)
(* is returned as it is                                                    *)
ValueAlt(t, o) ==
  IF ~o.hasValue THEN [err |-> FALSE, v |-> SrcNil]
  ELSE ConvertParam(t, o.value)

(* -------------------- earlier variant of the index helper -------------- *)
(* type Opt[T any] struct { value T; ok bool } *)
LegacySome(value) == [value |-> value, ok |-> TRUE]

LegacyNone(t) == [value |-> Zero(t), ok |-> FALSE]

(* IndexSlice(slice, index): slice[index] with index < 0 is a run-time panic *)
LegacyIndexSlice(t, slice, index) ==
  IF index >= Len(slice) THEN [panic |-> FALSE, res |-> LegacyNone(t)]
  ELSE IF index < 0 THEN [panic |-> TRUE, res |-> Nothing]
  ELSE [panic |-> FALSE, res |-> LegacySome(slice[index + 1])]

(* IndexMap(m, key): value, ok := m[key]; a missing key reads as the zero value *)
LegacyIndexMap(t, m, key) ==
  IF key \in DOMAIN m THEN [value |-> m[key], ok |-> TRUE]
  ELSE [value |-> Zero(t), ok |-> FALSE]

(* the stored field, returned as it is *)
UnwrapOrEmpty(o) == o.value

TryUnwrap(o) == [value |-> o.value, ok |-> o.ok]

(* ============================ state machine ============================ *)
(* T     the type the options are instantiated with (fixed per run)         *)
(* opts  the option variables of the program, one per slot                  *)
(* last  the last call: operation, receiver before the call, argument,      *)
(*       result, callback invocations, error and panic outcome              *)
(* heap  the cells allocated by ToPtr                                       *)
(* refs  the non-null references ToPtr has returned, in order               *)
VARIABLES T, opts, last, heap, refs

vars == <<T, opts, last, heap, refs>>

Ev(op, recv, arg, res, calls, err, panic) ==
  [op |-> op, recv |-> recv, arg |-> arg, res |-> res, calls |-> calls,
   err |-> err, panic |-> panic]

(* every option the constructors can build for type t, and the unset one *)
OptsOf(t) == {Unset(t), None(t)} \cup {Some(v) : v \in Values(t)}

Pointers(t) == {[isNil |-> TRUE, elem |-> Zero(t)]} \cup {[isNil |-> FALSE, elem |-> v] : v \in Values(t)}

SeqsUpTo(S, n) == UNION {[1..k -> S] : k \in 0..n}

Slices(t) == SeqsUpTo(Values(t), MaxLen)

Maps(t) == UNION {[D -> Values(t)] : D \in SUBSET Keys}

JsonInputs == {JNull, JStr, JBad} \cup {JNum(n) : n \in Ints}

Docs == [hasKey : BOOLEAN, tok : JsonInputs]

BinEncodings(t) == {MarshalBinary(t, o).bytes : o \in {p \in OptsOf(t) : ~MarshalBinary(t, p).err}}

BinInputs(t) ==
  {<<>>, <<0, 9>>, <<1>>, <<1, 9>>} \cup BinEncodings(t)
    \cup {<<2>> \o Tail(b) : b \in {e \in BinEncodings(t) : e[1] = 1}}

(* the options the earlier variant's constructors and index helper build *)
LegacyOpts(t) ==
  {LegacyNone(t)} \cup {LegacySome(v) : v \in Values(t)}
    \cup {LegacyIndexMap(t, m, key) : m \in Maps(t), key \in 0..(MaxKey + 1)}

ScanInputs == {SrcNil, SrcText, SrcStruct} \cup {SrcInt(n) : n \in Ints} \cup {SrcStr(n) : n \in Ints}

Init ==
  /\ T \in Types
  /\ opts = [s \in Slots |-> Unset(T)]
  /\ last = Ev("init", Nothing, Nothing, Nothing, <<>>, FALSE, FALSE)
  /\ heap = <<>>
  /\ refs = <<>>

(* an operation that returns an option, assigned to slot d *)
Assign(d, op, recv, arg, r) ==
  /\ opts' = [opts EXCEPT ![d] = r.res]
  /\ last' = Ev(op, recv, arg, r.res, r.calls, FALSE, FALSE)
  /\ UNCHANGED <<T, heap, refs>>

(* an operation that only returns a result *)
Observe(op, recv, arg, res, calls, err, panic) ==
  /\ last' = Ev(op, recv, arg, res, calls, err, panic)
  /\ UNCHANGED <<T, opts, heap, refs>>

(* a decode operation on the receiver in slot d *)
Decode(d, op, arg, r, calls) ==
  /\ opts' = [opts EXCEPT ![d] = r.o]
  /\ last' = Ev(op, opts[d], arg, r.o, calls, r.err, FALSE)
  /\ UNCHANGED <<T, heap, refs>>

(* ----------------------------- constructors ---------------------------- *)
CallSome ==
  \E d \in Slots, v \in Values(T) :
    Assign(d, "Some", Nothing, v, [res |-> Some(v), calls |-> <<>>])

CallNone ==
  \E d \in Slots :
    Assign(d, "None", Nothing, Nothing, [res |-> None(T), calls |-> <<>>])

CallFromPtr ==
  \E d \in Slots, ptr \in Pointers(T) :
    Assign(d, "FromPtr", Nothing, ptr, [res |-> FromPtr(T, ptr), calls |-> <<>>])

CallFromZero ==
  \E d \in Slots, v \in Values(T) :
    Assign(d, "FromZero", Nothing, v, [res |-> FromZero(T, v), calls |-> <<>>])

CallFromTuple ==
  \E d \in Slots, v \in Values(T), ok \in BOOLEAN :
    Assign(d, "FromTuple", Nothing, [value |-> v, ok |-> ok],
           [res |-> FromTuple(T, v, ok), calls |-> <<>>])

(* ------------------------------- queries ------------------------------- *)
CallIsExplicit ==
  \E s \in Slots : Observe("IsExplicit", opts[s], Nothing, IsExplicit(opts[s]), <<>>, FALSE, FALSE)

CallIsSome ==
  \E s \in Slots : Observe("IsSome", opts[s], Nothing, IsSome(opts[s]), <<>>, FALSE, FALSE)

CallIsNone ==
  \E s \in Slots : Observe("IsNone", opts[s], Nothing, IsNone(opts[s]), <<>>, FALSE, FALSE)

CallIsSomeAnd ==
  \E s \in Slots, fret \in BOOLEAN :
    LET r == IsSomeAnd(opts[s], fret)
    IN Observe("IsSomeAnd", opts[s], fret, r.res, r.calls, FALSE, FALSE)

CallIsNoneOr ==
  \E s \in Slots, fret \in BOOLEAN :
    LET r == IsNoneOr(opts[s], fret)
    IN Observe("IsNoneOr", opts[s], fret, r.res, r.calls, FALSE, FALSE)

(* ------------------------------ unwrappers ----------------------------- *)
CallGetOrEmpty ==
  \E s \in Slots : Observe("GetOrEmpty", opts[s], Nothing, GetOrEmpty(T, opts[s]), <<>>, FALSE, FALSE)

CallTryGet ==
  \E s \in Slots : Observe("TryGet", opts[s], Nothing, TryGet(T, opts[s]), <<>>, FALSE, FALSE)

CallMustGet ==
  \E s \in Slots :
    LET r == MustGet(T, opts[s])
    IN Observe("MustGet", opts[s], Nothing, r.value, <<>>, FALSE, r.panic)

CallGetOr ==
  \E s \in Slots, or \in Values(T) :
    Observe("GetOr", opts[s], or, GetOr(opts[s], or), <<>>, FALSE, FALSE)

CallGetOrElse ==
  \E s \in Slots, fret \in Values(T) :
    LET r == GetOrElse(opts[s], fret)
    IN Observe("GetOrElse", opts[s], fret, r.res, r.calls, FALSE, FALSE)

CallToSlice ==
  \E s \in Slots : Observe("ToSlice", opts[s], Nothing, ToSlice(opts[s]), <<>>, FALSE, FALSE)

(* ------------------------------ combinators ---------------------------- *)
(* d is the variable the result is assigned to, s the receiver, a the       *)
(* variable holding an option argument; a callback that returns an option   *)
(* returns one the program holds                                            *)
CallInspect ==
  \E d \in Slots, s \in Slots :
    Assign(d, "Inspect", opts[s], Nothing, Inspect(opts[s]))

CallOptMap ==
  \E d \in Slots, s \in Slots, fret \in Values(T) :
    Assign(d, "Opt.Map", opts[s], fret, Opt_Map(T, opts[s], fret))

CallAnd ==
  \E d \in Slots, s \in Slots, a \in Slots :
    Assign(d, "And", opts[s], opts[a], [res |-> And(opts[s], opts[a]), calls |-> <<>>])

CallOptAndThen ==
  \E d \in Slots, s \in Slots, a \in Slots :
    Assign(d, "Opt.AndThen", opts[s], opts[a], Opt_AndThen(opts[s], opts[a]))

CallOr ==
  \E d \in Slots, s \in Slots, a \in Slots :
    Assign(d, "Or", opts[s], opts[a], [res |-> Or(opts[s], opts[a]), calls |-> <<>>])

CallOrElse ==
  \E d \in Slots, s \in Slots, a \in Slots :
    Assign(d, "OrElse", opts[s], opts[a], OrElse(opts[s], opts[a]))

CallFilterInPlace ==
  \E d \in Slots, s \in Slots, pret \in BOOLEAN :
    LET r == Filter(T, opts[s], pret)
    IN /\ opts' = [[opts EXCEPT ![s] = r.res] EXCEPT ![d] = r.res]
       /\ last' = Ev("Filter", opts[s], pret, r.res, r.calls, FALSE, FALSE)
       /\ UNCHANGED <<T, heap, refs>>

CallFilter ==
  \E d \in Slots, s \in Slots, pret \in BOOLEAN :
    Assign(d, "Filter", opts[s], pret, Filter(T, opts[s], pret))

CallMap ==
  \E d \in Slots, s \in Slots, fret \in Values(T) :
    Assign(d, "Map", opts[s], fret, Map(T, opts[s], fret))

CallAndThen ==
  \E d \in Slots, s \in Slots, a \in Slots :
    Assign(d, "AndThen", opts[s], opts[a], AndThen(T, opts[s], opts[a]))

(* ----------------------------- index helpers --------------------------- *)
CallIndexSlice ==
  \E d \in Slots, slice \in Slices(T), index \in -1..MaxLen :
    LET r == IndexSlice(T, slice, index)
    IN /\ opts' = [opts EXCEPT ![d] = r.res]
       /\ last' = Ev("IndexSlice", Nothing, [slice |-> slice, index |-> index], r.res,
                     <<>>, FALSE, r.panic)
       /\ UNCHANGED <<T, heap, refs>>

CallIndexMap ==
  \E d \in Slots, m \in Maps(T), key \in 0..(MaxKey + 1) :
    Assign(d, "IndexMap", Nothing, [m |-> m, key |-> key],
           [res |-> IndexMap(T, m, key), calls |-> <<>>])

CallLegacyIndexSlice ==
  \E slice \in Slices(T), index \in -1..MaxLen :
    LET r == LegacyIndexSlice(T, slice, index)
    IN Observe("LegacyIndexSlice", Nothing, [slice |-> slice, index |-> index], r.res,
               <<>>, FALSE, r.panic)

CallLegacyIndexMap ==
  \E m \in Maps(T), key \in 0..(MaxKey + 1) :
    Observe("LegacyIndexMap", Nothing, [m |-> m, key |-> key], LegacyIndexMap(T, m, key),
            <<>>, FALSE, FALSE)

CallUnwrapOrEmpty ==
  \E o \in LegacyOpts(T) :
    Observe("UnwrapOrEmpty", o, Nothing, UnwrapOrEmpty(o), <<>>, FALSE, FALSE)

CallTryUnwrap ==
  \E o \in LegacyOpts(T) :
    Observe("TryUnwrap", o, Nothing, TryUnwrap(o), <<>>, FALSE, FALSE)

(* ------------------------------- encoders ------------------------------ *)
CallMarshalJSON ==
  \E s \in Slots :
    LET r == MarshalJSON(T, opts[s])
    IN Observe("MarshalJSON", opts[s], Nothing, r.bytes, [cause |-> r.cause], r.err, FALSE)

CallMarshalText ==
  \E s \in Slots :
    LET r == MarshalText(T, opts[s])
    IN Observe("MarshalText", opts[s], Nothing, r.bytes, [cause |-> r.cause], r.err, FALSE)

CallMarshalBinary ==
  \E s \in Slots :
    LET r == MarshalBinary(T, opts[s])
    IN Observe("MarshalBinary", opts[s], Nothing, r.bytes, <<>>, r.err, FALSE)

CallGobEncode ==
  \E s \in Slots :
    LET r == GobEncode(T, opts[s])
    IN Observe("GobEncode", opts[s], Nothing, r.bytes, <<>>, r.err, FALSE)

(* ------------------------------- decoders ------------------------------ *)
CallUnmarshalJSON ==
  \E d \in Slots, b \in JsonInputs :
    LET r == UnmarshalJSON(T, opts[d], b)
    IN Decode(d, "UnmarshalJSON", b, r, [cause |-> r.cause])

CallUnmarshalText ==
  \E d \in Slots, data \in JsonInputs :
    LET r == UnmarshalText(T, opts[d], data)
    IN Decode(d, "UnmarshalText", data, r, [cause |-> r.cause])

CallDecodeStruct ==
  \E d \in Slots, doc \in Docs :
    LET r == DecodeStruct(T, opts[d], doc)
    IN Decode(d, "DecodeStruct", doc, r, r.calls)

CallUnmarshalBinary ==
  \E d \in Slots, data \in BinInputs(T) :
    Decode(d, "UnmarshalBinary", data, UnmarshalBinary(T, opts[d], data), <<>>)

CallGobDecode ==
  \E d \in Slots, data \in BinInputs(T) :
    Decode(d, "GobDecode", data, GobDecode(T, opts[d], data), <<>>)

CallValue ==
  \E s \in Slots :
    LET r == Value(T, opts[s])
    IN Observe("Value", opts[s], Nothing, r.v, <<>>, r.err, FALSE)

CallValueAlt ==
  \E s \in Slots :
    LET r == ValueAlt(T, opts[s])
    IN Observe("ValueAlt", opts[s], Nothing, r.v, <<>>, r.err, FALSE)

CallScan ==
  \E d \in Slots, src \in ScanInputs :
    LET r == Scan(T, opts[d], src)
    IN Decode(d, "Scan", src, r, [tiers |-> r.tiers, cause |-> r.cause])

Next ==
  \/ CallSome \/ CallNone \/ CallFromPtr \/ CallFromZero \/ CallFromTuple
  \/ CallIsExplicit \/ CallIsSome \/ CallIsNone \/ CallIsSomeAnd \/ CallIsNoneOr
  \/ CallGetOrEmpty \/ CallTryGet \/ CallMustGet \/ CallGetOr \/ CallGetOrElse
  \/ CallToSlice
  \/ CallInspect \/ CallOptMap \/ CallAnd \/ CallOptAndThen \/ CallOr \/ CallOrElse
  \/ CallFilter \/ CallMap \/ CallAndThen
  \/ CallIndexSlice \/ CallIndexMap \/ CallLegacyIndexSlice
  \/ CallLegacyIndexMap \/ CallUnwrapOrEmpty \/ CallTryUnwrap
  \/ CallMarshalJSON \/ CallMarshalText \/ CallMarshalBinary \/ CallGobEncode
  \/ CallUnmarshalJSON \/ CallUnmarshalText \/ CallDecodeStruct
  \/ CallUnmarshalBinary \/ CallGobDecode \/ CallScan
  \/ CallValue \/ CallValueAlt

Spec == Init /\ [][Next]_vars

(* --------------------------- sql write path ---------------------------- *)
InitSql ==
  /\ T \in SqlTypes
  /\ opts = [s \in Slots |-> Unset(T)]
  /\ last = Ev("init", Nothing, Nothing, Nothing, <<>>, FALSE, FALSE)
  /\ heap = <<>>
  /\ refs = <<>>

NextSql ==
  \/ CallSome \/ CallNone \/ CallValue \/ CallValueAlt

SpecSql == InitSql /\ [][NextSql]_vars

(* -------------------------- encoding adapters -------------------------- *)
InitCodec ==
  /\ T \in CodecTypes
  /\ opts = [s \in Slots |-> Unset(T)]
  /\ last = Ev("init", Nothing, Nothing, Nothing, <<>>, FALSE, FALSE)
  /\ heap = <<>>
  /\ refs = <<>>

NextCodec ==
  \/ CallSome \/ CallNone
  \/ CallMarshalJSON \/ CallMarshalText \/ CallMarshalBinary \/ CallGobEncode
  \/ CallUnmarshalJSON \/ CallUnmarshalText \/ CallUnmarshalBinary \/ CallGobDecode

SpecCodec == InitCodec /\ [][NextCodec]_vars

(* ------------------------ references from ToPtr ------------------------ *)
CallToPtr ==
  \E s \in Slots :
    LET r == ToPtr(s, opts[s], heap)
    IN /\ Len(refs) < MaxRefs
       /\ heap' = r.heap
       /\ refs' = IF r.ref = NilRef THEN refs ELSE Append(refs, r.ref)
       /\ last' = Ev("ToPtr", opts[s], Nothing, r.ref, <<>>, FALSE, FALSE)
       /\ UNCHANGED <<T, opts>>

CallLegacyToPtr ==
  \E s \in Slots :
    LET r == LegacyToPtr(s, opts[s], heap)
    IN /\ Len(refs) < MaxRefs
       /\ heap' = r.heap
       /\ refs' = IF r.ref = NilRef THEN refs ELSE Append(refs, r.ref)
       /\ last' = Ev("LegacyToPtr", opts[s], Nothing, r.ref, <<>>, FALSE, FALSE)
       /\ UNCHANGED <<T, opts>>

(* the caller writes w through a reference it got from ToPtr *)
CallWrite ==
  \E i \in 1..Len(refs), w \in Values(T) :
    LET r == Store(refs[i], w, opts, heap)
    IN /\ opts' = r.opts
       /\ heap' = r.heap
       /\ last' = Ev("Write", opts, [ref |-> refs[i], w |-> w], Nothing, <<>>, FALSE, FALSE)
       /\ UNCHANGED <<T, refs>>

NextPtr ==
  \/ CallSome \/ CallNone \/ CallToPtr \/ CallLegacyToPtr \/ CallWrite

SpecPtr == Init /\ [][NextPtr]_vars

(* every option variable holds a value of the instantiated type *)
TypeOK ==
  /\ T \in Types
  /\ \A s \in Slots : opts[s].value \in Values(T) /\ opts[s].hasValue \in BOOLEAN
                      /\ opts[s].explicit \in BOOLEAN

(* =============================== claims ================================ *)
(* value equality of options: hasValue and, if present, the contained value; *)
(* the explicit flag does not take part (nor does that of a nested option)   *)
ValEq(t, a, b) ==
  IF t = "opt"
  THEN a.hasValue = b.hasValue /\ (a.hasValue => a.value = b.value)
  ELSE a = b

OptEq(t, a, b) ==
  a.hasValue = b.hasValue /\ (a.hasValue => ValEq(t, a.value, b.value))

DecodeOps == {"UnmarshalJSON", "UnmarshalText", "DecodeStruct", "UnmarshalBinary", "GobDecode", "Scan"}

(* C1: tri-state invariant -- every option the program holds, and every     *)
(* option nested in one, satisfies hasValue => explicit; the combination    *)
(* hasValue = TRUE, explicit = FALSE is never reached.                       *)
C1_TriState ==
  \A s \in Slots :
    /\ opts[s].hasValue => opts[s].explicit
    /\ (T = "opt" /\ opts[s].value.hasValue) => opts[s].value.explicit

(* a decode made one variable present while the other is still unset *)
C1_Witness ==
  /\ last.op \in DecodeOps
  /\ \E s \in Slots : opts[s].hasValue /\ opts[s] = last.res
  /\ \E s \in Slots : opts[s] = Unset(T)

(* C2: the three states are distinguishable by construction -- a            *)
(* zero-initialized option is neither explicit nor present, None() is        *)
(* explicit and absent, Some(v) is explicit and present, and FromPtr,        *)
(* FromZero, FromTuple always return an explicit option that is present iff  *)
(* the pointer is non-nil / the value is not the zero value / ok is true.    *)
C2_Constructors ==
  /\ last.op = "init" =>
       \A s \in Slots : ~IsExplicit(opts[s]) /\ ~IsSome(opts[s])
  /\ last.op = "None" => IsExplicit(last.res) /\ ~IsSome(last.res)
  /\ last.op = "Some" =>
       IsExplicit(last.res) /\ IsSome(last.res) /\ last.res.value = last.arg
  /\ last.op = "FromPtr" =>
       /\ IsExplicit(last.res)
       /\ IsSome(last.res) <=> ~last.arg.isNil
       /\ IsSome(last.res) => last.res.value = last.arg.elem
  /\ last.op = "FromZero" =>
       /\ IsExplicit(last.res)
       /\ IsSome(last.res) <=> last.arg # Zero(T)
       /\ IsSome(last.res) => last.res.value = last.arg
  /\ last.op = "FromTuple" =>
       /\ IsExplicit(last.res)
       /\ IsSome(last.res) <=> last.arg.ok
       /\ IsSome(last.res) => last.res.value = last.arg.value

(* FromZero was given the zero value and returned an explicit None *)
C2_Witness ==
  /\ last.op = "FromZero"
  /\ last.arg = Zero(T)
  /\ IsExplicit(last.res) /\ ~IsSome(last.res)

(* C3: explicitness via document decode -- after a struct decode that        *)
(* succeeds, a field whose key is present with null is explicit and absent,  *)
(* one whose key is present with a non-null value is explicit and present,   *)
(* and one whose key is absent is untouched (its UnmarshalJSON is never      *)
(* invoked), so an unset field stays unset.                                  *)
C3_StructDecode ==
  (last.op = "DecodeStruct" /\ ~last.err) =>
    /\ (last.arg.hasKey /\ last.arg.tok = JNull) =>
         (IsExplicit(last.res) /\ ~IsSome(last.res))
    /\ (last.arg.hasKey /\ last.arg.tok # JNull) =>
         (IsExplicit(last.res) /\ IsSome(last.res))
    /\ ~last.arg.hasKey =>
         (last.res = last.recv /\ last.calls = <<>>
          /\ (~IsExplicit(last.recv) => ~IsExplicit(last.res)))

(* an unset field was decoded from a document that has its key with null *)
C3_Witness ==
  /\ last.op = "DecodeStruct" /\ ~last.err
  /\ last.arg.hasKey /\ last.arg.tok = JNull
  /\ last.recv = Unset(T)
  /\ IsExplicit(last.res) /\ ~IsSome(last.res)

(* the encoder that pairs with a decode operation *)
EncodeFor(op, t, o) ==
  IF op = "UnmarshalJSON" THEN MarshalJSON(t, o)
  ELSE IF op = "UnmarshalText" THEN MarshalText(t, o)
  ELSE MarshalBinary(t, o)

RoundTripOps == {"UnmarshalJSON", "UnmarshalText", "UnmarshalBinary"}

(* the contained value's own document encoding is the null literal *)
EncodesAsNull(t, o) == o.hasValue /\ JsonMarshalValue(t, o.value) = JNull

(* C4 as stated: for every option o (unset, explicit-none, Some(v) for every *)
(* v, values that encode to null included), decoding what the binary,        *)
(* document or text adapter encoded for o gives an option equal to o.        *)
C4_Original ==
  (last.op \in RoundTripOps /\ ~last.err) =>
    \A o \in OptsOf(T) :
      LET e == EncodeFor(last.op, T, o)
      IN (~e.err /\ e.bytes = last.arg) => OptEq(T, last.res, o)

(* C4 amended: the round trip holds for the binary adapter whenever the      *)
(* encode succeeds, and for the document and text adapters for every option  *)
(* that is absent or whose contained value does not itself encode to null.   *)
C4_RoundTrip ==
  (last.op \in RoundTripOps /\ ~last.err) =>
    \A o \in OptsOf(T) :
      LET e == EncodeFor(last.op, T, o)
      IN (/\ ~e.err
          /\ e.bytes = last.arg
          /\ (last.op = "UnmarshalBinary" \/ ~EncodesAsNull(T, o)))
         => OptEq(T, last.res, o)

(* Some(None) of a nested option came back present through the binary adapter *)
C4_Witness ==
  /\ T = "opt"
  /\ last.op = "UnmarshalBinary" /\ ~last.err
  /\ last.arg = MarshalBinary(T, Some(None("int64"))).bytes
  /\ last.res.hasValue /\ ~last.res.value.hasValue

(* C5: And/Or truth table -- if x is absent, x.And(y) is x (absent) and      *)
(* x.Or(y) is exactly y; if x is Some(v), x.And(y) is exactly y and x.Or(y)  *)
(* is exactly x.                                                             *)
C5_AndOr ==
  /\ last.op = "And" =>
       IF ~last.recv.hasValue
       THEN ~last.res.hasValue /\ last.res = last.recv
       ELSE last.res = last.arg
  /\ last.op = "Or" =>
       IF ~last.recv.hasValue
       THEN last.res = last.arg
       ELSE last.res = last.recv

(* Some(v1).And(Some(v2)) with v1 # v2 *)
C5_Witness ==
  /\ last.op = "And"
  /\ last.recv.hasValue /\ last.arg.hasValue
  /\ last.recv # last.arg
  /\ last.res = last.arg

(* C6: AndThen short-circuit, method and free function -- on an absent       *)
(* option the result is absent and f is not invoked; on Some(v), f is        *)
(* invoked exactly once, with v, and the result is what f returned.          *)
C6_AndThen ==
  last.op \in {"Opt.AndThen", "AndThen"} =>
    IF ~last.recv.hasValue
    THEN ~last.res.hasValue /\ last.calls = <<>>
    ELSE last.calls = <<last.recv.value>> /\ last.res = last.arg

(* an absent option was chained with an f that would have returned Some *)
C6_Witness ==
  /\ last.op \in {"Opt.AndThen", "AndThen"}
  /\ ~last.recv.hasValue
  /\ last.arg.hasValue
  /\ ~last.res.hasValue /\ last.calls = <<>>

(* C7 as stated: for the method and the free function, an absent input       *)
(* gives an absent result with the input's explicit flag and f not invoked;  *)
(* Some(v) gives Some(f(v)).                                                 *)
C7_Original ==
  last.op \in {"Opt.Map", "Map"} =>
    IF ~last.recv.hasValue
    THEN /\ ~last.res.hasValue
         /\ last.res.explicit = last.recv.explicit
         /\ last.calls = <<>>
    ELSE last.res = Some(last.arg) /\ last.calls = <<last.recv.value>>

(* C7 amended: on an absent input f is not invoked and the result is absent; *)
(* the method returns the input itself (same explicit flag), the free        *)
(* function returns the explicit None() whatever the input's flag; Some(v)   *)
(* gives Some(f(v)) for both.                                                *)
C7_Map ==
  last.op \in {"Opt.Map", "Map"} =>
    IF ~last.recv.hasValue
    THEN /\ last.calls = <<>>
         /\ last.op = "Opt.Map" => last.res = last.recv
         /\ last.op = "Map" => last.res = None(T)
    ELSE last.res = Some(last.arg) /\ last.calls = <<last.recv.value>>

(* the free function mapped an unset option and returned the explicit None *)
C7_Witness ==
  /\ last.op = "Map"
  /\ last.recv = Unset(T)
  /\ last.res = None(T) /\ last.calls = <<>>

(* C8: Filter -- the result is present iff o is present and p(value) holds;  *)
(* a present result is o unchanged; an absent o is returned unchanged        *)
(* without invoking p; a present o failing p gives an absent result.         *)
C8_Filter ==
  last.op = "Filter" =>
    /\ last.res.hasValue <=> (last.recv.hasValue /\ last.arg)
    /\ last.res.hasValue => last.res = last.recv
    /\ ~last.recv.hasValue => (last.res = last.recv /\ last.calls = <<>>)
    /\ last.recv.hasValue => last.calls = <<last.recv.value>>

(* a present option failed the predicate *)
C8_Witness ==
  /\ last.op = "Filter"
  /\ last.recv.hasValue /\ ~last.arg
  /\ ~last.res.hasValue

(* C9: MustGet is the only operation that terminates abnormally -- it panics *)
(* iff the option is absent and returns the contained value otherwise; no    *)
(* other operation panics on any input.                                      *)
C9_OnlyMustGetPanics ==
  /\ last.panic <=> (last.op = "MustGet" /\ ~last.recv.hasValue)
  /\ (last.op = "MustGet" /\ last.recv.hasValue) => last.res = last.recv.value

(* C10: index helpers never fail -- the slice lookup returns Some(seq[i])    *)
(* iff 0 <= i < len(seq) and None otherwise, for every integer i; the map    *)
(* lookup returns Some(m[k]) iff k is a key of m and None otherwise.         *)
C10_IndexHelpers ==
  /\ last.op = "IndexSlice" =>
       /\ ~last.panic
       /\ IF 0 <= last.arg.index /\ last.arg.index < Len(last.arg.slice)
          THEN last.res = Some(last.arg.slice[last.arg.index + 1])
          ELSE last.res = None(T)
  /\ last.op = "LegacyIndexSlice" =>
       /\ ~last.panic
       /\ IF 0 <= last.arg.index /\ last.arg.index < Len(last.arg.slice)
          THEN last.res = LegacySome(last.arg.slice[last.arg.index + 1])
          ELSE last.res = LegacyNone(T)
  /\ last.op = "IndexMap" =>
       IF last.arg.key \in DOMAIN last.arg.m
       THEN last.res = Some(last.arg.m[last.arg.key])
       ELSE last.res = None(T)

(* C11: ToPtr independence -- an absent option gives the null reference;   *)
(* Some(v) gives a reference to a fresh cell holding v; a write through any  *)
(* reference ToPtr returned leaves every option as it was; no two references *)
(* returned by ToPtr alias each other.                                       *)
C11_ToPtr ==
  /\ last.op \in {"ToPtr", "LegacyToPtr"} =>
       IF ~last.recv.hasValue
       THEN last.res = NilRef
       ELSE /\ last.res.kind = "cell"
            /\ heap[last.res.i] = last.recv.value
            /\ refs[Len(refs)] = last.res
  /\ last.op = "Write" => opts = last.recv
  /\ \A i \in 1..Len(refs) : \A j \in 1..Len(refs) : i # j => refs[i] # refs[j]

(* two references were taken from present options and a value other than    *)
(* the original was written through one of them                             *)
C11_Witness ==
  /\ last.op = "Write"
  /\ Len(refs) = 2
  /\ \A s \in Slots : opts[s].hasValue /\ opts[s].value # last.arg.w
  /\ heap[last.arg.ref.i] = last.arg.w

C13_ValueNeverErrors ==
  last.op \in {"Value", "ValueAlt"} =>
    /\ ~last.err
    /\ IF ~last.recv.hasValue THEN last.res = SrcNil
       ELSE LET conv == ConvertParam(T, last.recv.value)
            IN IF conv.err THEN last.res = last.recv.value
               ELSE last.res = conv.v

(* C14: Scan tier order -- a NULL src gives None() with no error and no     *)
(* tier attempted; otherwise, if T has the scan capability only tier 1 runs  *)
(* and decides (Some(result) or an error); else if the scalar conversion     *)
(* yields exactly a T only tier 2 runs and the result is Some(converted);    *)
(* else tier 3 runs after tier 2.                                            *)
C14_ScanTiers ==
  last.op = "Scan" =>
    IF last.arg = SrcNil
    THEN ~last.err /\ last.res = None(T) /\ last.calls.tiers = <<>>
    ELSE IF HasScanner(T)
    THEN LET inner == Scan("int64", Unset("int64"), last.arg)
         IN /\ last.calls.tiers = <<1>>
            /\ last.err = inner.err
            /\ ~last.err => last.res = Some(inner.o)
    ELSE LET conv == ConvertValue(last.arg)
         IN IF ~conv.err /\ AssertT(T, conv.v).ok
            THEN /\ last.calls.tiers = <<2>>
                 /\ ~last.err
                 /\ last.res = Some(AssertT(T, conv.v).v)
            ELSE last.calls.tiers = <<2, 3>>

(* a decimal string scanned into Opt[int64]: the conversion succeeds but    *)
(* yields a string, so the null-aware scan runs after it and decides         *)
C14_Witness ==
  /\ last.op = "Scan"
  /\ T = "int64"
  /\ last.arg = SrcStr(1)
  /\ last.calls.tiers = <<2, 3>>
  /\ last.res = Some(IntV(1))

(* C15: Scan error provenance -- the error of the scalar conversion is      *)
(* never returned, its failure only leads to the null-aware scan; an error   *)
(* Scan returns is the error of T's own Scan wrapped with context, or the    *)
(* error of the null-aware scan as it is; when the null-aware scan succeeds  *)
(* the result is Some(value) if it reports valid and None() if not.          *)
C15_ScanErrors ==
  last.op = "Scan" =>
    LET inner == Scan("int64", Unset("int64"), last.arg)
        nullable == NullScan(T, last.arg)
        ranNullScan == \E k \in 1..Len(last.calls.tiers) : last.calls.tiers[k] = 3
    IN /\ last.calls.cause # ErrConvert
       /\ ~last.err => last.calls.cause = NoErr
       /\ last.err =>
            IF HasScanner(T)
            THEN inner.err /\ last.calls.cause = Wrap(inner.cause)
            ELSE nullable.err /\ last.calls.cause = nullable.cause
                 /\ last.calls.cause = ErrNullScan
       /\ (last.arg # SrcNil /\ ~HasScanner(T) /\ ConvertValue(last.arg).err) => ranNullScan
       /\ ranNullScan =>
            /\ last.err = nullable.err
            /\ ~last.err => last.res = IF nullable.valid THEN Some(nullable.v) ELSE None(T)

(* a src the scalar conversion rejects: the null-aware scan runs and its    *)
(* error is the one returned                                                 *)
C15_Witness ==
  /\ last.op = "Scan"
  /\ ~HasScanner(T)
  /\ ConvertValue(last.arg).err
  /\ last.calls.tiers = <<2, 3>>
  /\ last.err
  /\ last.calls.cause = ErrNullScan

(* operations with a value receiver (or none) that return no option *)
ReadOps ==
  {"IsExplicit", "IsSome", "IsNone", "IsSomeAnd", "IsNoneOr", "GetOrEmpty", "TryGet",
   "MustGet", "GetOr", "GetOrElse", "ToSlice", "LegacyIndexSlice", "LegacyIndexMap",
   "UnwrapOrEmpty", "TryUnwrap", "MarshalJSON",
   "MarshalText", "MarshalBinary", "GobEncode", "Value", "ValueAlt", "ToPtr", "LegacyToPtr"}

(* operations that return an option, which the caller stores in a variable *)
ReturnOps ==
  {"Some", "None", "FromPtr", "FromZero", "FromTuple", "Inspect", "Opt.Map", "And",
   "Opt.AndThen", "Or", "OrElse", "Filter", "Map", "AndThen", "IndexSlice", "IndexMap"}

(* a step in which no variable changes except one that is assigned the      *)
(* option the call returned                                                  *)
OnlyAssigned ==
  \E d \in Slots : opts' = [opts EXCEPT ![d] = last'.res]

(* C16 as stated: no operation, the decode operations included, changes an  *)
(* existing option in place -- options change only by assignment of a        *)
(* returned option.                                                          *)
C16_Original ==
  [][/\ last'.op \in ReadOps \cup DecodeOps => opts' = opts
     /\ last'.op \in ReturnOps => OnlyAssigned]_vars

(* C16: no operation with a value receiver (queries, unwrappers,            *)
(* combinators, ToSlice, encoders, Value) changes an existing option in      *)
(* place: options change only by assignment of a returned option; the        *)
(* decode operations have a pointer receiver and overwrite their receiver,  *)
(* and nothing else, in place.                                               *)
C16_NoInPlace ==
  [][/\ last'.op \in ReadOps => opts' = opts
     /\ last'.op \in ReturnOps => OnlyAssigned
     /\ last'.op \in DecodeOps =>
          \E d \in Slots : /\ opts[d] = last'.recv
                           /\ opts' = [opts EXCEPT ![d] = last'.res]]_vars

(* Filter rejected a present option: the result is None and the receiver    *)
(* variable still holds the present option                                   *)
C16_Witness ==
  /\ last.op = "Filter"
  /\ last.arg = FALSE
  /\ last.recv.hasValue
  /\ last.res = None(T)
  /\ \E s \in Slots : opts[s] = last.recv

(* C17 as stated: MarshalText returns the same bytes and error as           *)
(* MarshalJSON; UnmarshalText leaves the receiver in the same state and      *)
(* returns the same error as UnmarshalJSON; GobEncode and GobDecode return   *)
(* exactly what MarshalBinary and UnmarshalBinary return.                    *)
C17_Original ==
  /\ last.op = "MarshalText" =>
       LET r == MarshalJSON(T, last.recv)
       IN last.res = r.bytes /\ last.err = r.err /\ last.calls.cause = r.cause
  /\ last.op = "UnmarshalText" =>
       LET r == UnmarshalJSON(T, last.recv, last.arg)
       IN last.res = r.o /\ last.err = r.err /\ last.calls.cause = r.cause
  /\ last.op = "GobEncode" =>
       LET r == MarshalBinary(T, last.recv)
       IN last.res = r.bytes /\ last.err = r.err
  /\ last.op = "GobDecode" =>
       LET r == UnmarshalBinary(T, last.recv, last.arg)
       IN last.res = r.o /\ last.err = r.err

(* C17: text adapter pass-through -- MarshalText returns the same bytes as  *)
(* MarshalJSON and fails exactly when MarshalJSON fails, with MarshalJSON's  *)
(* error wrapped in a *json.MarshalerError; UnmarshalText leaves the         *)
(* receiver in the same state and returns the same error as UnmarshalJSON;   *)
(* GobEncode and GobDecode return exactly what MarshalBinary and             *)
(* UnmarshalBinary return.                                                   *)
C17_PassThrough ==
  /\ last.op = "MarshalText" =>
       LET r == MarshalJSON(T, last.recv)
       IN /\ last.res = r.bytes
          /\ last.err = r.err
          /\ last.calls.cause = IF r.err THEN MarshalerError(r.cause) ELSE NoErr
  /\ last.op = "UnmarshalText" =>
       LET r == UnmarshalJSON(T, last.recv, last.arg)
       IN last.res = r.o /\ last.err = r.err /\ last.calls.cause = r.cause
  /\ last.op = "GobEncode" =>
       LET r == MarshalBinary(T, last.recv)
       IN last.res = r.bytes /\ last.err = r.err
  /\ last.op = "GobDecode" =>
       LET r == UnmarshalBinary(T, last.recv, last.arg)
       IN last.res = r.o /\ last.err = r.err

(* MarshalText of a present option whose value encoding/json cannot encode *)
C17_Witness ==
  /\ last.op = "MarshalText"
  /\ last.recv.hasValue
  /\ last.err
  /\ last.res = JEmpty
  /\ last.calls.cause = MarshalerError(ErrUnsupported)

(* an absent option, and an absent option nested in a present one, stores  *)
(* the zero value of its type                                                *)
ZeroWhenAbsent(t, o) ==
  /\ ~o.hasValue => o.value = Zero(t)
  /\ (t = "opt" /\ o.hasValue /\ ~o.value.hasValue) => o.value.value = Zero("int64")

(* C18: absent options hold the zero value -- in every option the program   *)
(* holds or an operation returned, hasValue = false implies value = zero;    *)
(* so TryGet returns (value, true) if present else (zero, false), GetOrEmpty *)
(* returns value if present else zero, and both equal the stored field, as   *)
(* the older UnwrapOrEmpty / TryUnwrap return it.                            *)
C18_ZeroWhenAbsent ==
  /\ \A s \in Slots : ZeroWhenAbsent(T, opts[s])
  /\ last.op \in ReturnOps \cup DecodeOps => ZeroWhenAbsent(T, last.res)
  /\ last.op = "LegacyIndexMap" => (~last.res.ok => last.res.value = Zero(T))
  /\ last.op = "TryGet" =>
       /\ last.res = [value |-> IF last.recv.hasValue THEN last.recv.value ELSE Zero(T),
                      ok |-> last.recv.hasValue]
       /\ last.res = [value |-> last.recv.value, ok |-> last.recv.hasValue]
  /\ last.op = "GetOrEmpty" =>
       /\ last.res = IF last.recv.hasValue THEN last.recv.value ELSE Zero(T)
       /\ last.res = last.recv.value
  /\ last.op = "TryUnwrap" =>
       last.res = [value |-> IF last.recv.ok THEN last.recv.value ELSE Zero(T),
                   ok |-> last.recv.ok]
  /\ last.op = "UnwrapOrEmpty" =>
       last.res = IF last.recv.ok THEN last.recv.value ELSE Zero(T)

(* Filter rejected a present non-zero value: the result is absent and holds *)
(* the zero value                                                            *)
C18_Witness ==
  /\ last.op = "Filter"
  /\ last.recv.hasValue
  /\ last.recv.value # Zero(T)
  /\ ~last.res.hasValue
  /\ last.res.value = Zero(T)

(* the decode operations called on an option itself *)
ReceiverDecodeOps == {"UnmarshalJSON", "UnmarshalText", "UnmarshalBinary", "GobDecode", "Scan"}

(* C19: a failed decode leaves the receiver unchanged -- whenever           *)
(* UnmarshalJSON, UnmarshalText, UnmarshalBinary, GobDecode or Scan returns  *)
(* an error, the receiver's (value, hasValue, explicit) is what it was       *)
(* before the call; an unset receiver stays unset.                           *)
C19_FailedDecode ==
  (last.op \in ReceiverDecodeOps /\ last.err) =>
    /\ last.res = last.recv
    /\ \E d \in Slots : opts[d] = last.recv
    /\ last.recv = Unset(T) => ~IsExplicit(last.res)

(* the inner codec rejected the payload while the receiver held a value *)
C19_Witness ==
  /\ last.op = "UnmarshalBinary"
  /\ last.err
  /\ Len(last.arg) > 0
  /\ last.recv.hasValue
  /\ last.res = last.recv

(* the decode operation op applied to receiver o and input arg *)
DecodeWith(op, t, o, arg) ==
  IF op = "UnmarshalJSON" THEN UnmarshalJSON(t, o, arg)
  ELSE IF op = "UnmarshalText" THEN UnmarshalText(t, o, arg)
  ELSE IF op = "UnmarshalBinary" THEN UnmarshalBinary(t, o, arg)
  ELSE IF op = "GobDecode" THEN GobDecode(t, o, arg)
  ELSE Scan(t, o, arg)

(* C20: a successful decode marks the option explicit and fully replaces it *)
(* -- after UnmarshalJSON, UnmarshalText, UnmarshalBinary, GobDecode or Scan  *)
(* returns no error the receiver is explicit, and its state is the one the   *)
(* same call gives from every other prior state of the receiver.             *)
C20_SuccessfulDecode ==
  (last.op \in ReceiverDecodeOps /\ ~last.err) =>
    /\ IsExplicit(last.res)
    /\ \A p \in OptsOf(T) :
         LET r == DecodeWith(last.op, T, p, last.arg)
         IN ~r.err /\ r.o = last.res

(* NULL was scanned into an unset option: it became an explicit None *)
C20_Witness ==
  /\ last.op = "Scan"
  /\ ~last.err
  /\ last.arg = SrcNil
  /\ last.recv = Unset(T)
  /\ last.res = None(T)

====
